---- MODULE Spec2Model ----
(***************************************************************************)
(* POI matching pipeline of HOUPU1993/POI-study:                           *)
(*   search_spatial_candidates -> match_by_name                            *)
(* (src/2.match_func).  Text is a sequence of one-character strings and a   *)
(* float (a similarity score on the 0..100 scale, a distance in metres) is *)
(* an exact rational <<numerator, denominator>>.                           *)
(***************************************************************************)
EXTENDS Integers, Sequences, FiniteSets, TLC

VARIABLES
    compared_gdf,       \* comparison rows: [id, name, cat_main, xy]
    reference_gdf,      \* reference rows: [name, xy]
    k, max_dist,        \* arguments of search_spatial_candidates
    threshold,          \* argument of match_by_name
    pc,                 \* "start" | "searched" | "matched" | "raised"
    cleaned,            \* clean_name and extract_prinmary_str of each name in play
    scores,             \* rapidfuzz's four scores of each pair of names in play
    idx, dist,          \* tree.query's answer, one row per reference row
    cand_ids, cand_dist_m,
    matched_id, name_score, location_distance, matched_name, matched_cat_main,
    address_score, matched_address,     \* columns address_score_check adds
    category_sim,                       \* column calculate_similarity_check adds
    frames,             \* the column names of every table object made so far
    given,              \* per component call: the object it was given and returned
    model,              \* the sentence encoder's cosine of each pair of texts it has met
    call,               \* a helper function under call: [fn, arg]
    ret                 \* what the calls of the helper gave, in order

vars == <<compared_gdf, reference_gdf, k, max_dist, threshold, pc, cleaned, scores, idx, dist,
          cand_ids, cand_dist_m, matched_id, name_score, location_distance,
          matched_name, matched_cat_main, address_score, matched_address, category_sim,
          frames, given, model, call, ret>>

\* pd.NA and None: one-element tuples, so that they differ from every text (a
\* sequence of characters) and from every number (a rational <<n, d>>)
NA == <<"NA">>

None == <<"None">>

\* float("nan") and a number that is not a text
NaN == <<"NaN">>

Number == <<"42.0">>

\* the outcome of a call: a returned value or a raised exception
Return(v) == [kind |-> "return", value |-> v]

Raise(e) == [kind |-> "raise", value |-> e]

(***************************************************************************)
(* Sequences and exact rationals                                           *)
(***************************************************************************)
Max2(a, b) == IF a >= b THEN a ELSE b

Min2(a, b) == IF a <= b THEN a ELSE b

RECURSIVE Gcd(_, _)
Gcd(a, b) == IF b = 0 THEN a ELSE Gcd(b, a % b)

\* the rational n/d in lowest terms
Q(n, d) == LET g == Gcd(n, d) IN IF g = 0 THEN <<0, 1>> ELSE <<n \div g, d \div g>>

QLe(a, b) == a[1] * b[2] <= b[1] * a[2]

QLt(a, b) == a[1] * b[2] < b[1] * a[2]

QMax(a, b) == IF QLt(a, b) THEN b ELSE a

QMul(a, n, d) == Q(a[1] * n, a[2] * d)

QInt(n) == <<n, 1>>

Slice(s, a, b) == IF a > b THEN <<>> ELSE SubSeq(s, a, b)

Range(s) == {s[i] : i \in DOMAIN s}

\* the sequence f[1], ..., f[n], each element computed once
RECURSIVE Tabulate(_, _)
Tabulate(f, n) == IF n = 0 THEN <<>> ELSE Append(Tabulate(f, n - 1), f[n])

RECURSIVE Concat(_)
Concat(ss) == IF ss = <<>> THEN <<>> ELSE Head(ss) \o Concat(Tail(ss))

(***************************************************************************)
(* rapidfuzz: Indel similarity and the four scorers match_by_name calls    *)
(***************************************************************************)
\* last row of the longest-common-subsequence table of s against t[1..j]
RECURSIVE LcsRow(_, _, _)
LcsRow(s, t, j) ==
    IF j = 0 THEN [i \in 0..Len(s) |-> 0]
    ELSE LET prev == LcsRow(s, t, j - 1)
             RECURSIVE cell(_)
             cell(i) == IF i = 0 THEN 0
                        ELSE IF s[i] = t[j] THEN prev[i - 1] + 1
                        ELSE Max2(prev[i], cell(i - 1))
         IN [i \in 0..Len(s) |-> cell(i)]

Lcs(s, t) == LcsRow(s, t, Len(t))[Len(s)]

indel_distance(s, t) == Len(s) + Len(t) - 2 * Lcs(s, t)

\* _norm_distance: 100 - 100 * dist / lensum, 100 when lensum is 0
norm_distance(d, lensum) == IF lensum = 0 THEN QInt(100) ELSE Q(100 * (lensum - d), lensum)

\* fuzz.ratio
ratio(s, t) == norm_distance(indel_distance(s, t), Len(s) + Len(t))

\* _partial_ratio_impl, Len(s1) <= Len(s2): the best ratio of s1 against the
\* prefixes, the windows of Len(s1) characters and the suffixes of s2; a window
\* whose last (a suffix whose first) character is not in s1 is skipped
partial_ratio_impl(s1, s2) ==
    LET l1 == Len(s1)
        l2 == Len(s2)
        cs == Range(s1)
        pre == {ratio(s1, Slice(s2, 1, i)) : i \in {i \in 1..(l1 - 1) : s2[i] \in cs}}
        mid == {ratio(s1, Slice(s2, i + 1, i + l1)) :
                    i \in {i \in 0..(l2 - l1 - 1) :
                             s2[IF i + l1 = 0 THEN l2 ELSE i + l1] \in cs}}
        suf == {ratio(s1, Slice(s2, i + 1, l2)) :
                    i \in {i \in (l2 - l1)..(l2 - 1) : s2[i + 1] \in cs}}
        all == pre \cup mid \cup suf \cup {QInt(0)}
    IN CHOOSE m \in all : \A x \in all : QLe(x, m)

\* fuzz.partial_ratio
partial_ratio(s1, s2) ==
    IF s1 = <<>> /\ s2 = <<>> THEN QInt(100)
    ELSE LET shorter == IF Len(s1) <= Len(s2) THEN s1 ELSE s2
             longer == IF Len(s1) <= Len(s2) THEN s2 ELSE s1
             res == partial_ratio_impl(shorter, longer)
         IN IF res # QInt(100) /\ Len(s1) = Len(s2)
            THEN QMax(res, partial_ratio_impl(longer, shorter))
            ELSE res

\* a whitespace character: \s, and what str.split() splits on
IsWhite(c) == c \in {" ", "\t", "\n"}

\* str.split(): the maximal runs of non-space characters
RECURSIVE split(_)
split(s) ==
    IF s = <<>> THEN <<>>
    ELSE IF IsWhite(Head(s)) THEN split(Tail(s))
    ELSE LET stop == IF \E i \in DOMAIN s : IsWhite(s[i])
                     THEN (CHOOSE i \in DOMAIN s :
                              IsWhite(s[i]) /\ \A j \in 1..(i - 1) : ~IsWhite(s[j]))
                     ELSE Len(s) + 1
         IN <<Slice(s, 1, stop - 1)>> \o split(Slice(s, stop, Len(s)))

\* " ".join(tokens)
RECURSIVE join(_)
join(ts) ==
    IF ts = <<>> THEN <<>>
    ELSE IF Len(ts) = 1 THEN ts[1]
    ELSE ts[1] \o <<" ">> \o join(Tail(ts))

\* code-point order of the characters a cleaned name can hold
CodePoints == <<" ", "0", "1", "2", "3", "4", "5", "6", "7", "8", "9",
                "A", "B", "C", "D", "E", "F", "G", "H", "I", "J", "K", "L", "M",
                "N", "O", "P", "Q", "R", "S", "T", "U", "V", "W", "X", "Y", "Z", "_">>

Ord(c) == CHOOSE i \in DOMAIN CodePoints : CodePoints[i] = c

\* s < t as Python compares strings
RECURSIVE StrLt(_, _)
StrLt(s, t) ==
    IF t = <<>> THEN FALSE
    ELSE IF s = <<>> THEN TRUE
    ELSE IF Head(s) = Head(t) THEN StrLt(Tail(s), Tail(t))
    ELSE Ord(Head(s)) < Ord(Head(t))

\* sorted(tokens): insertion into an ascending list
RECURSIVE sorted(_)
sorted(ts) ==
    IF ts = <<>> THEN <<>>
    ELSE LET rest == sorted(Tail(ts))
             t == Head(ts)
             n == Cardinality({i \in DOMAIN rest : StrLt(rest[i], t)})
         IN Slice(rest, 1, n) \o <<t>> \o Slice(rest, n + 1, Len(rest))

\* sorted(set(tokens)): the distinct tokens, ascending
RECURSIVE dedup(_)
dedup(ts) ==
    IF ts = <<>> THEN <<>>
    ELSE IF Head(ts) \in Range(Tail(ts)) THEN dedup(Tail(ts))
    ELSE <<Head(ts)>> \o dedup(Tail(ts))

Keep(ts, S) == sorted(dedup(SelectSeq(ts, LAMBDA t : t \in S)))

\* fuzz.token_sort_ratio
token_sort_ratio(s1, s2) == ratio(join(sorted(split(s1))), join(sorted(split(s2))))

\* fuzz.token_set_ratio
token_set_ratio(s1, s2) ==
    LET a == split(s1)
        b == split(s2)
        tokens_a == Range(a)
        tokens_b == Range(b)
        intersect == tokens_a \cap tokens_b
        diff_ab == join(Keep(a, tokens_a \ tokens_b))
        diff_ba == join(Keep(b, tokens_b \ tokens_a))
        sect_len == Len(join(Keep(a, intersect)))
        sep == IF sect_len # 0 THEN 1 ELSE 0
        sect_ab_len == sect_len + sep + Len(diff_ab)
        sect_ba_len == sect_len + sep + Len(diff_ba)
        result == norm_distance(indel_distance(diff_ab, diff_ba), sect_ab_len + sect_ba_len)
        sect_ab_ratio == norm_distance(sep + Len(diff_ab), sect_len + sect_ab_len)
        sect_ba_ratio == norm_distance(sep + Len(diff_ba), sect_len + sect_ba_len)
    IN IF tokens_a = {} \/ tokens_b = {} THEN QInt(0)
       ELSE IF intersect # {} /\ (tokens_a \subseteq tokens_b \/ tokens_b \subseteq tokens_a)
       THEN QInt(100)
       ELSE IF sect_len = 0 THEN result
       ELSE QMax(result, QMax(sect_ab_ratio, sect_ba_ratio))

\* fuzz.partial_token_ratio, which WRatio calls for names of unlike length
partial_token_ratio(s1, s2) ==
    LET a == split(s1)
        b == split(s2)
        tokens_a == Range(a)
        tokens_b == Range(b)
        result == partial_ratio(join(sorted(a)), join(sorted(b)))
    IN IF tokens_a \cap tokens_b # {} THEN QInt(100)
       ELSE IF Len(a) = Cardinality(tokens_a) /\ Len(b) = Cardinality(tokens_b) THEN result
       ELSE QMax(result, partial_ratio(join(Keep(a, tokens_a)), join(Keep(b, tokens_b))))

\* fuzz.WRatio
WRatio(s1, s2) ==
    LET len1 == Len(s1)
        len2 == Len(s2)
        long == Max2(len1, len2)
        short == Min2(len1, len2)
        end_ratio == ratio(s1, s2)
        token_ratio == QMax(token_sort_ratio(s1, s2), token_set_ratio(s1, s2))
        pnum == IF long < 8 * short THEN 9 ELSE 6
        with_partial == QMax(end_ratio, QMul(partial_ratio(s1, s2), pnum, 10))
    IN IF len1 = 0 \/ len2 = 0 THEN QInt(0)
       ELSE IF 2 * long < 3 * short THEN QMax(end_ratio, QMul(token_ratio, 95, 100))
       ELSE QMax(with_partial, QMul(partial_token_ratio(s1, s2), 95 * pnum, 1000))

(***************************************************************************)
(* Text normalizer: clean_name and extract_prinmary_str                    *)
(***************************************************************************)
\* characters outside ASCII are written by their code point
EAcute == "U+00E9"

CombiningAcute == "U+0301"

CjkLetter == "U+4E2D"

Emoji == "U+1F600"

LowerCase == <<"a", "b", "c", "d", "e", "f", "g", "h", "i", "j", "k", "l", "m",
               "n", "o", "p", "q", "r", "s", "t", "u", "v", "w", "x", "y", "z">>

UpperCase == <<"A", "B", "C", "D", "E", "F", "G", "H", "I", "J", "K", "L", "M",
               "N", "O", "P", "Q", "R", "S", "T", "U", "V", "W", "X", "Y", "Z">>

Digits == {"0", "1", "2", "3", "4", "5", "6", "7", "8", "9"}

\* isinstance(s, str)
IsStr(s) == s \notin {None, NA, NaN, Number}

\* unicodedata.normalize("NFKD", c) of one character
nfkd(c) == IF c = EAcute THEN <<"e", CombiningAcute>> ELSE <<c>>

\* unicodedata.combining(c) # 0
combining(c) == c = CombiningAcute

\* str.upper() of one character
upper(c) == IF c \in Range(LowerCase)
            THEN UpperCase[CHOOSE i \in DOMAIN LowerCase : LowerCase[i] = c]
            ELSE c

IsAscii(c) == c \notin {EAcute, CombiningAcute, CjkLetter, Emoji}

\* \w of a Python str pattern: letters of any script, digits, underscore
IsWord(c) == c \in Range(LowerCase) \cup Range(UpperCase) \cup Digits \cup {"_", EAcute, CjkLetter}

\* a step that leaves the parentheses and what they hold in the text
keep_parens(s) == s

\* re.sub(r"\([^)]*\)", "", s): from a "(" to the first ")" after it
RECURSIVE strip_parens(_)
strip_parens(s) ==
    IF s = <<>> THEN <<>>
    ELSE IF Head(s) = "(" /\ \E j \in 2..Len(s) : s[j] = ")"
    THEN LET j == CHOOSE j \in 2..Len(s) : s[j] = ")" /\ \A i \in 2..(j - 1) : s[i] # ")"
         IN strip_parens(Slice(s, j + 1, Len(s)))
    ELSE <<Head(s)>> \o strip_parens(Tail(s))

\* \b between s[i-1] and s[i]
Boundary(s, i) ==
    LET before == i > 1 /\ IsWord(s[i - 1])
        after == i <= Len(s) /\ IsWord(s[i])
    IN before # after

\* re.sub(r"\b'S\b", "", s)
strip_possessive(s) ==
    LET hit(i) == /\ i + 1 <= Len(s) /\ s[i] = "'" /\ s[i + 1] = "S"
                  /\ Boundary(s, i) /\ Boundary(s, i + 2)
        gone == {i \in DOMAIN s : hit(i) \/ (i > 1 /\ hit(i - 1))}
        keep == {i \in DOMAIN s : i \notin gone}
        RECURSIVE pick(_)
        pick(i) == IF i > Len(s) THEN <<>>
                   ELSE IF i \in keep THEN <<s[i]>> \o pick(i + 1) ELSE pick(i + 1)
    IN pick(1)

\* re.sub(r"\bS\b", "", s)
strip_lone_s(s) ==
    LET hit(i) == s[i] = "S" /\ Boundary(s, i) /\ Boundary(s, i + 1)
        RECURSIVE pick(_)
        pick(i) == IF i > Len(s) THEN <<>>
                   ELSE IF hit(i) THEN pick(i + 1) ELSE <<s[i]>> \o pick(i + 1)
    IN pick(1)

\* re.sub(r"\s+", " ", s)
RECURSIVE collapse_spaces(_)
collapse_spaces(s) ==
    IF s = <<>> THEN <<>>
    ELSE IF IsWhite(Head(s))
    THEN IF Len(s) > 1 /\ IsWhite(s[2]) THEN collapse_spaces(Tail(s))
         ELSE <<" ">> \o collapse_spaces(Tail(s))
    ELSE <<Head(s)>> \o collapse_spaces(Tail(s))

\* str.strip()
RECURSIVE strip(_)
strip(s) ==
    IF s = <<>> THEN <<>>
    ELSE IF IsWhite(Head(s)) THEN strip(Tail(s))
    ELSE IF IsWhite(s[Len(s)]) THEN strip(Slice(s, 1, Len(s) - 1))
    ELSE s

\* the steps of clean_name on a str, src/2.match_func/match_by_name.py
name_text(s) ==
    LET s1 == SelectSeq(Concat([i \in DOMAIN s |-> nfkd(s[i])]), LAMBDA c : ~combining(c))
        s2 == [i \in DOMAIN s1 |-> upper(s1[i])]
        s3 == strip_parens(s2)
        s4 == strip_possessive(s3)
        s5 == strip_lone_s(s4)
        s6 == SelectSeq(s5, IsAscii)
        s7 == [i \in DOMAIN s6 |-> IF IsWord(s6[i]) \/ IsWhite(s6[i]) THEN s6[i] ELSE " "]
    IN strip(collapse_spaces(s7))

\* a clean_name that hands a non-string back as it came
clean_name_unguarded(s) == IF ~IsStr(s) THEN s ELSE name_text(s)

\* clean_name of src/2.match_func/match_by_name.py
clean_name(s) == IF ~IsStr(s) THEN <<>> ELSE name_text(s)

\* the steps of clean_name on a str, src/address_score_check.py: no possessive steps
address_text(s) ==
    LET s1 == SelectSeq(Concat([i \in DOMAIN s |-> nfkd(s[i])]), LAMBDA c : ~combining(c))
        s2 == [i \in DOMAIN s1 |-> upper(s1[i])]
        s3 == strip_parens(s2)
        s6 == SelectSeq(s3, IsAscii)
        s7 == [i \in DOMAIN s6 |-> IF IsWord(s6[i]) \/ IsWhite(s6[i]) THEN s6[i] ELSE " "]
    IN strip(collapse_spaces(s7))

\* clean_name of src/address_score_check.py
address_clean_name(s) == IF ~IsStr(s) THEN <<>> ELSE address_text(s)

\* the module-level exclusion set extract_prinmary_str reads
NON_PRIMARY_TOKENS == {<<"T", "H", "E">>, <<"I", "N", "C">>, <<"C", "O">>}

\* an extraction without the rule for a single short token
extract_ignoring_length(name, non_primary) ==
    LET core == SelectSeq(split(name), LAMBDA t : t \notin non_primary)
    IN IF core # <<>> THEN join(core) ELSE name

\* an extraction that never falls back to the name it was given
extract_core_only(name, non_primary) ==
    join(SelectSeq(split(name), LAMBDA t : t \notin non_primary))

\* the body of extract_prinmary_str, the module-level set it reads made explicit
extract_prinmary_str_in(name, non_primary) ==
    LET tokens == split(name)
        core == SelectSeq(tokens, LAMBDA t : t \notin non_primary)
    IN IF Len(core) = 1 /\ Len(core[1]) < 3 THEN name
       ELSE IF core # <<>> THEN join(core)
       ELSE name

\* extract_prinmary_str
extract_prinmary_str(name) == extract_prinmary_str_in(name, NON_PRIMARY_TOKENS)

(***************************************************************************)
(* Spatial candidate finder: search_spatial_candidates                     *)
(***************************************************************************)
Abs(n) == IF n < 0 THEN -n ELSE n

\* Euclidean distance of two projected points; the inputs are drawn from
\* points whose distances are whole numbers
Distance(p, q) ==
    LET sq == (p[1] - q[1]) * (p[1] - q[1]) + (p[2] - q[2]) * (p[2] - q[2])
    IN QInt(CHOOSE d \in 0..(Abs(p[1] - q[1]) + Abs(p[2] - q[2])) : d * d = sq)

\* a query that answers with any m distinct rows, near or far, in any order
RECURSIVE tree_query_any(_, _, _, _)
tree_query_any(cmp_xy, x, m, left) ==
    IF m = 0 \/ left = {} THEN {<<>>}
    ELSE UNION {{<<j>> \o rest : rest \in tree_query_any(cmp_xy, x, m - 1, left \ {j})} :
                   j \in left}

\* cKDTree.query(x, k=m): the answers it may give for one point, each a list of
\* m distinct row numbers of cmp_xy in ascending distance; which of several
\* equally distant rows comes first (or is left out) is the tree's choice
RECURSIVE tree_query(_, _, _, _)
tree_query(cmp_xy, x, m, left) ==
    IF m = 0 \/ left = {} THEN {<<>>}
    ELSE LET nearest == {j \in left : \A i \in left :
                            QLe(Distance(x, cmp_xy[j]), Distance(x, cmp_xy[i]))}
         IN UNION {{<<j>> \o rest : rest \in tree_query(cmp_xy, x, m - 1, left \ {j})} :
                      j \in nearest}

\* a neighbour count that ignores k
k_eff_all(asked, rows) == Len(rows)

\* result = reference_gdf.copy() followed by result[col] = ... : a new table
\* object with the columns of the last one and the new ones
copy_with(objects, columns) == Append(objects, objects[Len(objects)] \cup columns)

\* the record of one component call: the table object it was given, that
\* object's columns at the time of the call, and the object it returned
Given(fn, frame, returned) ==
    [fn |-> fn, frame |-> frame, columns |-> frames[frame], returned |-> returned]

\* the neighbour count asked of the tree: k_eff = min(k, len(compared_gdf))
k_eff(asked, rows) == Min2(asked, Len(rows))

\* a distance test that lets every neighbour through
in_range_any(d, limit) == TRUE

\* a distance test with an exclusive boundary: d < max_dist
in_range_strict(d, limit) == QLt(d, QInt(limit))

\* the distance test of the inner loop: d <= max_dist
in_range(d, limit) == QLe(d, QInt(limit))

\* the inner loop of search_spatial_candidates: the neighbours within max_dist
RECURSIVE within(_, _, _)
within(row_idx, row_dist, limit) ==
    IF row_idx = <<>> THEN <<>>
    ELSE IF in_range(row_dist[1], limit)
    THEN <<row_idx[1]>> \o within(Tail(row_idx), Tail(row_dist), limit)
    ELSE within(Tail(row_idx), Tail(row_dist), limit)

Rows == DOMAIN reference_gdf

\* search_spatial_candidates(reference_gdf, compared_gdf, k, max_dist);
\* tree.query raises ValueError when asked for k = 0 neighbours
search_spatial_candidates ==
    /\ pc = "start"
    /\ LET cmp_xy == [j \in DOMAIN compared_gdf |-> compared_gdf[j].xy]
           m == k_eff(k, compared_gdf)
           answers(r) == tree_query(cmp_xy, reference_gdf[r].xy, m, DOMAIN compared_gdf)
       IN IF m = 0
          THEN /\ pc' = "raised"
               /\ UNCHANGED <<idx, dist, cand_ids, cand_dist_m, frames, given>>
          ELSE \E found \in [Rows -> UNION {answers(r) : r \in Rows}] :
                  /\ \A r \in Rows : found[r] \in answers(r)
                  /\ idx' = found
                  /\ dist' = [r \in Rows |->
                                [i \in DOMAIN found[r] |->
                                    Distance(reference_gdf[r].xy, cmp_xy[found[r][i]])]]
                  /\ cand_ids' = [r \in Rows |->
                        LET keep == within(idx'[r], dist'[r], max_dist)
                        IN [i \in DOMAIN keep |-> compared_gdf[keep[i]].id]]
                  /\ cand_dist_m' = [r \in Rows |-> within(dist'[r], dist'[r], max_dist)]
                  /\ frames' = copy_with(frames, {"cand_ids", "cand_dist_m"})
                  /\ given' = Append(given, Given("search_spatial_candidates",
                                                  Len(frames), Len(frames) + 1))
                  /\ pc' = "searched"
    /\ UNCHANGED <<compared_gdf, reference_gdf, k, max_dist, threshold, cleaned, scores,
                   matched_id,
                   name_score, location_distance, matched_name, matched_cat_main,
                   address_score, matched_address, category_sim, model, call, ret>>

(***************************************************************************)
(* Name matcher: match_by_name                                             *)
(***************************************************************************)
\* the row of compared_gdf with this id, as set_index(comp_id)[col].to_dict() finds it
ById(cid) == compared_gdf[CHOOSE j \in DOMAIN compared_gdf : compared_gdf[j].id = cid]

id_to_name_clean(cid) == cleaned[ById(cid).name]

id_to_name_raw(cid) == ById(cid).name

id_to_cat(cid) == ById(cid).cat_main

\* the names the input rows are drawn from
ABC == <<"A", "B", "C">>

ABCD == <<"A", "B", "C", "D">>

AC == <<"A", "C">>

ABCDE == <<"A", "B", "C", "D", "E">>

ABXCDE == <<"A", "B", "X", "C", "D", "E">>

ABCDEFG == <<"A", "B", "C", "D", "E", "F", "G">>

MacysDowntown == <<"M", "a", "c", "y", "'", "s", " ", "(", "D", "o", "w", "n", "t", "o", "w",
                   "n", ")">>

Macy == <<"M", "a", "c", "y">>

MACY == <<"M", "A", "C", "Y">>

MACY_DOWNTOWN == <<"M", "A", "C", "Y", " ", "D", "O", "W", "N", "T", "O", "W", "N">>

\* addresses of the inputs
Addr1 == <<"1", " ", "a", " ", "s", "t", ".">>

Addr2 == <<"2", " ", "a", " ", "s", "t">>

NearNames == {ABC, ABCD, AC, None}

\* the names of the rows that go through the whole pipeline
PipeNames == {ABC, ABCD, AC, MacysDowntown, Macy}

\* the cleaned addresses the address scorer can be asked to compare
CleanAddresses == {address_clean_name(a) : a \in {Addr1, Addr2}}

WideNames == {ABCDE, ABXCDE, ABCDEFG}

\* clean_name followed by extract_prinmary_str on every name of the inputs; both
\* are pure, so the variable cleaned holds this table from the start
CleanTable ==
    [n \in NearNames \cup WideNames \cup PipeNames |-> extract_prinmary_str(clean_name(n))]

\* what match_by_name compares: the cleaned, primary-extracted names
CleanNames(raw) == {extract_prinmary_str(clean_name(n)) : n \in raw}

ScorePairs == (CleanNames(NearNames) \X CleanNames(NearNames))
                 \cup (CleanNames(WideNames) \X CleanNames(WideNames))
                 \cup (CleanNames(PipeNames) \X CleanNames(PipeNames))
                 \cup (CleanAddresses \X CleanAddresses)

\* the four scorers on every pair of names that can meet; the scorers are pure,
\* so the variable scores holds this table from the start and is only read
ScoreTable ==
    [p \in ScorePairs |->
        [wr |-> WRatio(p[1], p[2]), pr |-> partial_ratio(p[1], p[2]),
         ts |-> token_sort_ratio(p[1], p[2]), tset |-> token_set_ratio(p[1], p[2])]]

Scores(query, name) == scores[<<query, name>>]

\* process.extract(query, cand_names, scorer=fuzz.WRatio, limit=n): the positions of
\* the n best choices by WRatio, best first, equal scores in list order
extract(query, cand_names, n) ==
    LET wr == [p \in DOMAIN cand_names |-> Scores(query, cand_names[p]).wr]
        before(o, p) == QLt(wr[p], wr[o]) \/ (wr[o] = wr[p] /\ o < p)
        rank(p) == Cardinality({o \in DOMAIN cand_names : before(o, p)})
    IN Tabulate([i \in 1..Min2(n, Len(cand_names)) |->
                    CHOOSE p \in DOMAIN cand_names : rank(p) = i - 1],
                Min2(n, Len(cand_names)))

\* combined = max(wr, pr, ts, tset) of one candidate name
combined(query, name) ==
    LET e == Scores(query, name) IN QMax(QMax(e.wr, e.pr), QMax(e.ts, e.tset))

\* the loop over top_matches: <<best_score, best_pos>> starts at <<-1, None>> and
\* is replaced only by a strictly higher combined score, so it ends at the
\* first entry of top_matches that reaches the highest combined score
best_of(query, cand_names, top_matches) ==
    LET c == Tabulate([i \in DOMAIN top_matches |->
                          combined(query, cand_names[top_matches[i]])], Len(top_matches))
        win == {i \in DOMAIN top_matches :
                   /\ QLt(QInt(-1), c[i])
                   /\ \A j \in DOMAIN top_matches : QLe(c[j], c[i])
                   /\ \A j \in 1..(i - 1) : QLt(c[j], c[i])}
    IN IF win = {} THEN <<QInt(-1), None>>
       ELSE LET i == CHOOSE i \in win : TRUE IN <<c[i], top_matches[i]>>

\* process.extract's limit in match_by_name
ExtractLimit == 5

\* a guard that looks at the query only
skip_row_query_only(query, ids) == ~IsStr(query)

\* the guard of the loop: not isinstance(query, str) or not row["cand_ids"]
skip_row(query, ids) == ~IsStr(query) \/ ids = <<>>

\* an acceptance test with an exclusive boundary: best_score > threshold
accepted_strict(score, limit) == QLt(QInt(limit), score)

\* the acceptance test: best_score >= threshold
accepted(score, limit) == QLe(QInt(limit), score)

\* the five appended values of a row that was skipped
SkippedRow ==
    [matched_id |-> NA, name_score |-> NA, location_distance |-> NA,
     matched_name |-> NA, matched_cat_main |-> NA]

\* a rejection that discards the score
UnmatchedRowNoScore(score) == SkippedRow

\* the five appended values of a row whose best score is under the threshold
UnmatchedRow(score) ==
    [matched_id |-> NA, name_score |-> score, location_distance |-> NA,
     matched_name |-> NA, matched_cat_main |-> NA]

\* query = extract_prinmary_str(clean_name(row[ref_name_col]))
query_of(r) == cleaned[reference_gdf[r].name]

\* an iteration that stores the distance of the nearest candidate, not the winner's
match_row_nearest_distance(r) ==
    LET query == query_of(r)
        ids == cand_ids[r]
        cand_names == Tabulate([i \in DOMAIN ids |-> id_to_name_clean(ids[i])], Len(ids))
        top_matches == extract(query, cand_names, ExtractLimit)
        best == best_of(query, cand_names, top_matches)
        score == best[1]
        best_pos == best[2]
    IN IF skip_row(query, ids) THEN SkippedRow
       ELSE IF accepted(score, threshold)
       THEN [matched_id |-> ids[best_pos], name_score |-> score,
             location_distance |-> cand_dist_m[r][1],
             matched_name |-> id_to_name_raw(ids[best_pos]),
             matched_cat_main |-> id_to_cat(ids[best_pos])]
       ELSE UnmatchedRow(score)

\* one iteration of match_by_name's loop over the reference rows
match_row(r) ==
    LET query == query_of(r)
        ids == cand_ids[r]
        cand_names == Tabulate([i \in DOMAIN ids |-> id_to_name_clean(ids[i])], Len(ids))
        top_matches == extract(query, cand_names, ExtractLimit)
        best == best_of(query, cand_names, top_matches)
        score == best[1]
        best_pos == best[2]
    IN IF skip_row(query, ids) THEN SkippedRow
       ELSE IF accepted(score, threshold)
       THEN [matched_id |-> ids[best_pos], name_score |-> score,
             location_distance |-> cand_dist_m[r][best_pos],
             matched_name |-> id_to_name_raw(ids[best_pos]),
             matched_cat_main |-> id_to_cat(ids[best_pos])]
       ELSE UnmatchedRow(score)

\* a loop that reserves a comparison record for the first row that takes it:
\* a later row whose best candidate is taken stays unmatched
match_rows_reserving(r) ==
    LET taken(i) == \E j \in 1..(i - 1) :
                        /\ match_row(j).matched_id # NA
                        /\ match_row(j).matched_id = match_row(i).matched_id
        n == Len(reference_gdf) - r + 1
    IN Tabulate([i \in 1..n |->
                    IF taken(i + r - 1) THEN UnmatchedRow(match_row(i + r - 1).name_score)
                    ELSE match_row(i + r - 1)], n)

\* the loop of match_by_name over the reference rows, in row order
RECURSIVE match_rows(_)
match_rows(r) ==
    IF r > Len(reference_gdf) THEN <<>> ELSE <<match_row(r)>> \o match_rows(r + 1)

\* match_by_name(reference_gdf, compared_gdf, threshold=threshold)
match_by_name ==
    /\ pc = "searched"
    /\ \E out \in {match_rows(1)} :
          /\ matched_id' = [r \in Rows |-> out[r].matched_id]
          /\ name_score' = [r \in Rows |-> out[r].name_score]
          /\ location_distance' = [r \in Rows |-> out[r].location_distance]
          /\ matched_name' = [r \in Rows |-> out[r].matched_name]
          /\ matched_cat_main' = [r \in Rows |-> out[r].matched_cat_main]
    /\ frames' = copy_with(frames, {"matched_id", "name_score", "location_distance",
                                     "matched_name", "matched_cat_main"})
    /\ given' = Append(given, Given("match_by_name", Len(frames), Len(frames) + 1))
    /\ pc' = "matched"
    /\ UNCHANGED <<compared_gdf, reference_gdf, k, max_dist, threshold, cleaned, scores, idx,
                   dist,
                   cand_ids, cand_dist_m, address_score, matched_address, category_sim,
                   model, call, ret>>

(***************************************************************************)
(* Address scorer: address_score_check of src/address_score_check.py       *)
(***************************************************************************)
\* an isna that calls nothing missing
isna_never(v) == FALSE

\* pd.isna(v), Series.isna()
isna(v) == v \in {NA, None, NaN}

\* id_to_addr.get(cid): the cleaned address of the comparison row with this id,
\* None when no row has it
id_to_addr(cid) ==
    IF \E j \in DOMAIN compared_gdf : compared_gdf[j].id = cid
    THEN address_clean_name(ById(cid).address)
    ELSE None

\* isinstance(a, str) and a.strip()
has_text(a) == IsStr(a) /\ strip(a) # <<>>

\* int(x) of a score that is not negative
int(x) == QInt(x[1] \div x[2])

\* an iteration that surfaces the matched address only beside a score
address_row_hiding(r) ==
    LET addr_ref == address_clean_name(reference_gdf[r].addr_simple)
        addr_cmp == id_to_addr(matched_id[r])
        scored == ~isna(matched_id[r]) /\ has_text(addr_ref) /\ has_text(addr_cmp)
    IN [matched_address |-> IF scored THEN addr_cmp ELSE NA,
        address_score |-> IF scored THEN int(combined(addr_ref, addr_cmp)) ELSE NA]

\* one iteration of address_score_check's loop
address_row(r) ==
    IF isna(matched_id[r]) THEN [address_score |-> NA, matched_address |-> NA]
    ELSE LET addr_ref == address_clean_name(reference_gdf[r].addr_simple)
             addr_cmp == id_to_addr(matched_id[r])
         IN [matched_address |-> IF has_text(addr_cmp) THEN addr_cmp ELSE NA,
             address_score |-> IF ~has_text(addr_ref) \/ ~has_text(addr_cmp) THEN NA
                               ELSE int(combined(addr_ref, addr_cmp))]

\* a scorer that takes the match away from a row it gives no score
address_score_check_unmatching ==
    /\ pc = "matched"
    /\ \E out \in {Tabulate([r \in Rows |-> address_row(r)], Len(reference_gdf))} :
          /\ address_score' = [r \in Rows |-> out[r].address_score]
          /\ matched_address' = [r \in Rows |-> out[r].matched_address]
          /\ matched_id' = [r \in Rows |->
                              IF isna(out[r].address_score) THEN NA ELSE matched_id[r]]
    /\ frames' = copy_with(frames, {"address_score", "matched_address"})
    /\ given' = Append(given, Given("address_score_check", Len(frames), Len(frames) + 1))
    /\ pc' = "addressed"
    /\ UNCHANGED <<compared_gdf, reference_gdf, k, max_dist, threshold, cleaned, scores, idx,
                   dist, cand_ids, cand_dist_m, name_score, location_distance,
                   matched_name, matched_cat_main, category_sim, model, call, ret>>

\* address_score_check(reference_gdf, compared_gdf), called at one point of the
\* caller's script and leaving it at the next
address_score_check_at(from, to) ==
    /\ pc = from
    /\ \E out \in {Tabulate([r \in Rows |-> address_row(r)], Len(reference_gdf))} :
          /\ address_score' = [r \in Rows |-> out[r].address_score]
          /\ matched_address' = [r \in Rows |-> out[r].matched_address]
    /\ frames' = copy_with(frames, {"address_score", "matched_address"})
    /\ given' = Append(given, Given("address_score_check", Len(frames), Len(frames) + 1))
    /\ pc' = to
    /\ UNCHANGED <<compared_gdf, reference_gdf, k, max_dist, threshold, cleaned, scores, idx,
                   dist, cand_ids, cand_dist_m, matched_id, name_score, location_distance,
                   matched_name, matched_cat_main, category_sim, model, call, ret>>

\* address_score_check(reference_gdf, compared_gdf) on the matcher's result
address_score_check == address_score_check_at("matched", "addressed")

(***************************************************************************)
(* Category scorer: calculate_similarity_check                             *)
(***************************************************************************)
\* a mask that also wants an address score once that column is there
mask_where_addressed(r) ==
    /\ ~isna(matched_id[r]) /\ strip(matched_id[r]) # <<>>
    /\ address_score # <<>> => ~isna(address_score[r])

\* mask: matched_id is there and is not blank
mask(r) == ~isna(matched_id[r]) /\ strip(matched_id[r]) # <<>>

\* temp_df = df[mask]: the numbers of the rows under the mask, in row order
temp_df == SelectSeq([r \in Rows |-> r], mask)

\* text_missing_mask of a row of temp_df
text_missing(r) == isna(reference_gdf[r].primary_type) \/ isna(matched_cat_main[r])

\* fillna("")
fillna(v) == IF isna(v) THEN <<>> ELSE v

texts_1 == [i \in DOMAIN temp_df |-> fillna(reference_gdf[temp_df[i]].primary_type)]

texts_2 == [i \in DOMAIN temp_df |-> fillna(matched_cat_main[temp_df[i]])]

\* values a cosine similarity of two different texts is drawn from
SimValues == {Q(0, 1), Q(1, 2)}

\* the cosine similarities the encoder can give: a function of the two texts,
\* 1 for equal texts, otherwise whatever the embedding model makes of them
Similarities ==
    LET pairs == {<<texts_1[i], texts_2[i]>> : i \in DOMAIN temp_df}
    IN {cos \in [pairs -> SimValues \cup {Q(1, 1)}] :
           /\ \A p \in pairs : (cos[p] = Q(1, 1)) <=> (p[1] = p[2])
           /\ \A p \in pairs \cap DOMAIN model : cos[p] = model[p]}

\* a write-back that lays the scores on the masked rows from the bottom up
write_back_reversed(sims, r) ==
    IF mask(r)
    THEN sims[Len(temp_df) + 1 - CHOOSE i \in DOMAIN temp_df : temp_df[i] = r]
    ELSE NaN

\* df[result_col] = np.nan; df.loc[mask, result_col] = scores
write_back(sims, r) ==
    IF mask(r) THEN sims[CHOOSE i \in DOMAIN temp_df : temp_df[i] = r] ELSE NaN

\* calculate_similarity_check(df), called at one point of the caller's script
\* and leaving it at the next; the encoder answers as it did before for a
\* pair of texts it has met; with no row
\* under the mask the encoder is handed an empty list and the cosine of two
\* empty batches is taken, which the libraries may refuse
calculate_similarity_check_at(from, to) ==
    /\ pc = from
    /\ \/ /\ temp_df = <<>>
          /\ pc' = "raised"
          /\ UNCHANGED <<category_sim, frames, given, model>>
       \/ /\ \E cos \in Similarities :
                LET sims == [i \in DOMAIN temp_df |->
                                IF text_missing(temp_df[i]) THEN NaN
                                ELSE cos[<<texts_1[i], texts_2[i]>>]]
                IN /\ category_sim' = [r \in Rows |-> write_back(sims, r)]
                   /\ model' = cos @@ model
          /\ frames' = [frames EXCEPT ![Len(frames)] = @ \cup {"category_sim"}]
          /\ given' = Append(given, Given("calculate_similarity_check",
                                          Len(frames), Len(frames)))
          /\ pc' = to
    /\ UNCHANGED <<compared_gdf, reference_gdf, k, max_dist, threshold, cleaned, scores, idx,
                   dist, cand_ids, cand_dist_m, matched_id, name_score, location_distance,
                   matched_name, matched_cat_main, address_score, matched_address,
                   call, ret>>

\* calculate_similarity_check(df) on the address scorer's result
calculate_similarity_check == calculate_similarity_check_at("addressed", "scored")

(***************************************************************************)
(* Inputs and the specification                                            *)
(***************************************************************************)
MaxCmp == 2

MaxRef == 2

MaxWide == 6

K_DEFAULT == 100

MAX_DIST_DEFAULT == 1000

THRESHOLD_DEFAULT == 80

Cafe == <<"c", "a", "f", "e">>

Shop == <<"s", "h", "o", "p">>

\* comparison rows to draw from: name, category, projected point
CmpRows ==
    {[name |-> ABC, cat_main |-> Cafe, xy |-> <<0, 4>>],
     [name |-> ABC, cat_main |-> Shop, xy |-> <<3, 0>>],
     [name |-> ABCD, cat_main |-> Shop, xy |-> <<3, 0>>],
     [name |-> AC, cat_main |-> None, xy |-> <<3, 0>>],
     [name |-> None, cat_main |-> Shop, xy |-> <<3, 4>>]}

RefRows ==
    {[name |-> ABC, xy |-> <<0, 0>>],
     [name |-> None, xy |-> <<3, 4>>]}

SeqsUpTo(S, n) == UNION {[1..m -> S] : m \in 0..n}

\* sequences that take no row of S twice
DistinctSeqsUpTo(S, n) ==
    {q \in SeqsUpTo(S, n) : \A i, j \in DOMAIN q : i # j => q[i] # q[j]}

\* the id column: unique texts "p0", "p1", ...
WithIds(rows) == [j \in DOMAIN rows |-> [id |-> <<"p", CodePoints[j + 1]>>] @@ rows[j]]

\* no helper function is under call
Idle == [fn |-> "none", arg |-> <<>>]

\* the columns of the reference table the pipeline starts from
ReferenceColumns == {"name", "addr_simple", "primary_type", "geometry"}

InitColumns ==
    /\ call = Idle /\ ret = <<>>
    /\ address_score = <<>> /\ matched_address = <<>> /\ category_sim = <<>>
    /\ frames = <<ReferenceColumns>> /\ given = <<>> /\ model = <<>>
    /\ cleaned = CleanTable
    /\ scores = ScoreTable
    /\ pc = "start"
    /\ idx = <<>> /\ dist = <<>> /\ cand_ids = <<>> /\ cand_dist_m = <<>>
    /\ matched_id = <<>> /\ name_score = <<>> /\ location_distance = <<>>
    /\ matched_name = <<>> /\ matched_cat_main = <<>>

\* a few rows around the reference points, distances 0, 3, 4 and 5
InitNear ==
    /\ \E rows \in DistinctSeqsUpTo(CmpRows, MaxCmp) : compared_gdf = WithIds(rows)
    /\ reference_gdf \in SeqsUpTo(RefRows, MaxRef) \ {<<>>}
    /\ k \in {1, 2}
    /\ max_dist \in {4, 5}
    /\ threshold \in {THRESHOLD_DEFAULT, 90}

\* more candidates than process.extract keeps, under the default arguments
InitWide ==
    /\ \E n \in (ExtractLimit + 1)..MaxWide :
         \E rows \in [1..n -> {ABXCDE, ABCDEFG}] :
            compared_gdf = WithIds([j \in 1..n |->
                              [name |-> rows[j], cat_main |-> Shop, xy |-> <<j, 0>>]])
    /\ reference_gdf = <<[name |-> ABCDE, xy |-> <<0, 0>>]>>
    /\ k = K_DEFAULT
    /\ max_dist = MAX_DIST_DEFAULT
    /\ threshold = THRESHOLD_DEFAULT

Init == InitColumns /\ (InitNear \/ InitWide)

Next == search_spatial_candidates \/ match_by_name

Spec == Init /\ [][Next]_vars

(***************************************************************************)
(* The whole pipeline: search, match, address score, category score        *)
(***************************************************************************)
Empty == <<>>

\* comparison rows of the pipeline runs: name, category, address, point
PipeCmpRows ==
    {[name |-> ABC, cat_main |-> Cafe, address |-> Addr1, xy |-> <<3, 0>>],
     [name |-> ABC, cat_main |-> Empty, address |-> Addr2, xy |-> <<0, 4>>],
     [name |-> ABCD, cat_main |-> None, address |-> Empty, xy |-> <<3, 4>>],
     [name |-> Macy, cat_main |-> Shop, address |-> None, xy |-> <<3, 0>>]}

\* reference rows of the pipeline runs: name, address, category, point
PipeRefRows ==
    {[name |-> ABC, addr_simple |-> Addr1, primary_type |-> Cafe, xy |-> <<0, 0>>],
     [name |-> ABC, addr_simple |-> None, primary_type |-> Empty, xy |-> <<0, 0>>],
     [name |-> AC, addr_simple |-> Addr1, primary_type |-> None, xy |-> <<3, 4>>],
     [name |-> MacysDowntown, addr_simple |-> Addr2, primary_type |-> Cafe,
      xy |-> <<0, 0>>]}

InitPipeline ==
    /\ InitColumns
    /\ \E rows \in DistinctSeqsUpTo(PipeCmpRows, MaxCmp) : compared_gdf = WithIds(rows)
    /\ reference_gdf \in SeqsUpTo(PipeRefRows, MaxRef) \ {<<>>}
    /\ k = MaxCmp
    /\ max_dist = 4
    /\ threshold = THRESHOLD_DEFAULT

NextPipeline ==
    \/ search_spatial_candidates
    \/ match_by_name
    \/ address_score_check
    \/ calculate_similarity_check

SpecPipeline == InitPipeline /\ [][NextPipeline]_vars

(***************************************************************************)
(* The two scorers in both orders on one matcher result                    *)
(***************************************************************************)
\* the three columns the scorers add
Annotations == <<address_score, matched_address, category_sim>>

\* the caller keeps the columns the first order gave and starts again from a
\* copy of the matcher's result, which neither scorer has written to
start_over ==
    /\ pc = "scored"
    /\ ret' = Append(ret, Return(Annotations))
    /\ address_score' = <<>> /\ matched_address' = <<>> /\ category_sim' = <<>>
    /\ frames' = Append(frames, frames[given[2].returned])
    /\ pc' = "matched again"
    /\ UNCHANGED <<compared_gdf, reference_gdf, k, max_dist, threshold, cleaned, scores, idx,
                   dist, cand_ids, cand_dist_m, matched_id, name_score, location_distance,
                   matched_name, matched_cat_main, given, model, call>>

\* calculate_similarity_check(df) on the matcher's result
category_first == calculate_similarity_check_at("matched again", "categorized")

\* address_score_check(reference_gdf, compared_gdf) on the category scorer's result
address_second == address_score_check_at("categorized", "both")

NextCommute ==
    \/ search_spatial_candidates
    \/ match_by_name
    \/ address_score_check
    \/ calculate_similarity_check
    \/ start_over
    \/ category_first
    \/ address_second

SpecCommute == InitPipeline /\ [][NextCommute]_vars

(***************************************************************************)
(* address_score_check called on its own                                   *)
(***************************************************************************)
\* an address that is a string and cleans to the empty string
Dot == <<".">>

\* an id no comparison row has
MissingId == <<"p", "9">>

\* reference rows with a usable, a missing and an empty-after-cleaning address
AddressRefRows ==
    {[name |-> ABC, addr_simple |-> a, primary_type |-> Cafe, xy |-> <<0, 0>>] :
        a \in {Addr1, None, Dot}}

\* the matched_id column the function is given: null, the first comparison
\* row's id, or an id that is not in the comparison set
InitAddress ==
    /\ call = Idle /\ ret = <<>>
    /\ address_score = <<>> /\ matched_address = <<>> /\ category_sim = <<>>
    /\ frames = <<ReferenceColumns \cup {"matched_id"}>> /\ given = <<>> /\ model = <<>>
    /\ cleaned = CleanTable
    /\ scores = ScoreTable
    /\ pc = "matched"
    /\ idx = <<>> /\ dist = <<>> /\ cand_ids = <<>> /\ cand_dist_m = <<>>
    /\ name_score = <<>> /\ location_distance = <<>>
    /\ matched_name = <<>> /\ matched_cat_main = <<>>
    /\ \E rows \in DistinctSeqsUpTo(PipeCmpRows, MaxCmp) \ {<<>>} :
          compared_gdf = WithIds(rows)
    /\ reference_gdf \in SeqsUpTo(AddressRefRows, MaxRef) \ {<<>>}
    /\ matched_id \in [DOMAIN reference_gdf -> {NA, compared_gdf[1].id, MissingId}]
    /\ k = K_DEFAULT /\ max_dist = MAX_DIST_DEFAULT /\ threshold = THRESHOLD_DEFAULT

NextAddress == address_score_check

SpecAddress == InitAddress /\ [][NextAddress]_vars

(***************************************************************************)
(* The normalizers called on their own                                     *)
(***************************************************************************)
\* the tables of the pipeline, all but the position pc
tables == <<compared_gdf, reference_gdf, k, max_dist, threshold, cleaned, scores, idx, dist,
            cand_ids, cand_dist_m, matched_id, name_score, location_distance,
            matched_name, matched_cat_main, address_score, matched_address, category_sim,
            frames, given, model>>

\* the pipeline is not running while a helper function is called on its own
NoPipeline ==
    /\ compared_gdf = <<>> /\ reference_gdf = <<>>
    /\ k = K_DEFAULT /\ max_dist = MAX_DIST_DEFAULT /\ threshold = THRESHOLD_DEFAULT
    /\ cleaned = <<>> /\ scores = <<>>
    /\ idx = <<>> /\ dist = <<>> /\ cand_ids = <<>> /\ cand_dist_m = <<>>
    /\ matched_id = <<>> /\ name_score = <<>> /\ location_distance = <<>>
    /\ matched_name = <<>> /\ matched_cat_main = <<>>
    /\ address_score = <<>> /\ matched_address = <<>> /\ category_sim = <<>>
    /\ frames = <<>> /\ given = <<>> /\ model = <<>>

MaxText == 3

\* characters the texts are made of: letters, the possessive, blanks, brackets,
\* a letter outside ASCII and an accented letter
TextAlphabet == {"a", "s", "'", " ", "(", ")", CjkLetter, EAcute}

Texts == SeqsUpTo(TextAlphabet, MaxText)

NonStrings == {None, NaN, Number}

InitNormalize ==
    /\ NoPipeline
    /\ pc = "call"
    /\ call \in [fn : {"clean_name", "address_clean_name"}, arg : Texts \cup NonStrings]
    /\ ret = <<>>

\* what the next call of the normalizer is given: the argument, then its own result
NormalizeInput == IF pc = "call" THEN call.arg ELSE ret[Len(ret)].value

\* clean_name of match_by_name.py, called and then called on its result
clean_name_call ==
    /\ call.fn = "clean_name"
    /\ pc \in {"call", "once"}
    /\ ret' = Append(ret, Return(clean_name(NormalizeInput)))
    /\ pc' = IF pc = "call" THEN "once" ELSE "twice"
    /\ UNCHANGED <<tables, call>>

\* clean_name of address_score_check.py, called and then called on its result
address_clean_name_call ==
    /\ call.fn = "address_clean_name"
    /\ pc \in {"call", "once"}
    /\ ret' = Append(ret, Return(address_clean_name(NormalizeInput)))
    /\ pc' = IF pc = "call" THEN "once" ELSE "twice"
    /\ UNCHANGED <<tables, call>>

NextNormalize == clean_name_call \/ address_clean_name_call

SpecNormalize == InitNormalize /\ [][NextNormalize]_vars

(***************************************************************************)
(* extract_prinmary_str called on its own                                  *)
(***************************************************************************)
MaxTokens == 3

\* tokens of one, two and three characters
ExtractTokens == {<<"A">>, <<"C", "O">>, <<"T", "H", "E">>, <<"A", "B", "C">>}

\* the exclusion sets the function is run under: the configured one and
\* every set of the tokens that can be excluded here
ExclusionSets == {NON_PRIMARY_TOKENS} \cup SUBSET {<<"A">>, <<"C", "O">>, <<"T", "H", "E">>}

\* names as clean_name leaves them: tokens separated by single spaces
NormalizedNames == {join(ts) : ts \in SeqsUpTo(ExtractTokens, MaxTokens)}

\* the same names with blanks around them and doubled between the tokens
PaddedNames ==
    {<<" ">> \o Concat([i \in DOMAIN ts |-> ts[i] \o <<" ", " ">>]) :
        ts \in SeqsUpTo(ExtractTokens, MaxTokens)}

InitExtract ==
    /\ NoPipeline
    /\ pc = "call"
    /\ call \in [fn : {"extract_prinmary_str"},
                 arg : [name : NormalizedNames \cup PaddedNames,
                        NON_PRIMARY_TOKENS : ExclusionSets]]
    /\ ret = <<>>

\* extract_prinmary_str, called and then called on its result
extract_prinmary_str_call ==
    /\ call.fn = "extract_prinmary_str"
    /\ pc \in {"call", "once"}
    /\ LET name == IF pc = "call" THEN call.arg.name ELSE ret[Len(ret)].value
       IN ret' = Append(ret, Return(extract_prinmary_str_in(name,
                                                            call.arg.NON_PRIMARY_TOKENS)))
    /\ pc' = IF pc = "call" THEN "once" ELSE "twice"
    /\ UNCHANGED <<tables, call>>

NextExtract == extract_prinmary_str_call

SpecExtract == InitExtract /\ [][NextExtract]_vars

(***************************************************************************)
(* Properties                                                              *)
(***************************************************************************)
Searched == pc \in {"searched", "matched"}

Matched == pc = "matched"

\* the combined score of the i-th candidate of reference row r
cand_combined(r, i) == combined(query_of(r), id_to_name_clean(cand_ids[r][i]))

\* candidate i of row r reaches the highest combined score of the whole list
IsTop(r, i) == \A j \in DOMAIN cand_ids[r] : QLe(cand_combined(r, j), cand_combined(r, i))

AllNull(r) ==
    /\ matched_id[r] = NA /\ name_score[r] = NA /\ location_distance[r] = NA
    /\ matched_name[r] = NA /\ matched_cat_main[r] = NA

\* C1: after match_by_name, a row's matched_id is non-null exactly when its
\* candidate list is non-empty and its name score is at least the threshold;
\* a score equal to the threshold is accepted
C1_MatchedIffScoreAtLeastThreshold ==
    Matched =>
        \A r \in Rows :
            (matched_id[r] # NA) <=>
                (/\ cand_ids[r] # <<>>
                 /\ name_score[r] # NA
                 /\ QLe(QInt(threshold), name_score[r]))

\* a row is matched with a score exactly equal to the threshold
C1_Witness ==
    Matched /\ \E r \in Rows : matched_id[r] # NA /\ name_score[r] = QInt(threshold)

\* C2: for every matched row the reported name_score is the maximum of the four
\* scorer outputs of the winning candidate, and no candidate of the row's list,
\* however long the list, has a strictly higher combined score
C2_ScoreIsBestOverAllCandidates ==
    Matched =>
        \A r \in Rows :
            matched_id[r] # NA =>
                /\ name_score[r] = combined(query_of(r), id_to_name_clean(matched_id[r]))
                /\ \A i \in DOMAIN cand_ids[r] : QLe(cand_combined(r, i), name_score[r])

\* C3: when several candidates of a row share the highest combined score, the
\* selected one is the first of them in the distance-ordered candidate list
C3_TieGoesToNearest ==
    Matched =>
        \A r \in Rows : \A w \in DOMAIN cand_ids[r] :
            (matched_id[r] = cand_ids[r][w] /\ IsTop(r, w)) =>
                \A j \in 1..(w - 1) : ~IsTop(r, j)

\* C4: a reference row with a null name and a non-empty candidate list ends
\* unmatched with a null name_score and all match fields null
C4_NullNameRowHasNullScore ==
    Matched =>
        \A r \in Rows :
            (reference_gdf[r].name = None /\ cand_ids[r] # <<>>) => AllNull(r)

\* C5: a row whose best combined score is below the threshold keeps matched_id,
\* location_distance, matched_name and matched category null and records the
\* score, which is not null, in name_score
C5_BelowThresholdKeepsScore ==
    Matched =>
        \A r \in Rows :
            (/\ cand_ids[r] # <<>>
             /\ \A i \in DOMAIN cand_ids[r] : QLt(cand_combined(r, i), QInt(threshold))) =>
                /\ matched_id[r] = NA /\ location_distance[r] = NA
                /\ matched_name[r] = NA /\ matched_cat_main[r] = NA
                /\ name_score[r] # NA
                /\ \E i \in DOMAIN cand_ids[r] : name_score[r] = cand_combined(r, i)

\* a named row is rejected with a positive score under the threshold
C5_Witness ==
    Matched /\ \E r \in Rows :
        /\ reference_gdf[r].name # None /\ cand_ids[r] # <<>> /\ matched_id[r] = NA
        /\ name_score[r] # NA
        /\ QLt(QInt(0), name_score[r]) /\ QLt(name_score[r], QInt(threshold))

\* C6: a row whose candidate list is empty comes out of match_by_name with
\* matched_id, name_score, location_distance, matched_name and matched category
\* all null
C6_EmptyCandidatesAllNull ==
    Matched => \A r \in Rows : cand_ids[r] = <<>> => AllNull(r)

\* a named row whose neighbours were all beyond max_dist went through the matcher
C6_Witness ==
    Matched /\ \E r \in Rows :
        /\ reference_gdf[r].name # None /\ idx[r] # <<>> /\ cand_ids[r] = <<>>
        /\ name_score[r] = NA

\* C7: after search_spatial_candidates the stored distances of every row are
\* non-decreasing along the list and none exceeds max_dist
C7_DistancesSortedAndBounded ==
    Searched =>
        \A r \in Rows : \A i \in DOMAIN cand_dist_m[r] :
            /\ QLe(cand_dist_m[r][i], QInt(max_dist))
            /\ i > 1 => QLe(cand_dist_m[r][i - 1], cand_dist_m[r][i])

\* one row stores two increasing distances and one row lost a neighbour to max_dist
C7_Witness ==
    /\ Searched
    /\ \E r \in Rows : Len(cand_dist_m[r]) = 2 /\ QLt(cand_dist_m[r][1], cand_dist_m[r][2])
    /\ \E r \in Rows : Len(cand_dist_m[r]) < Len(dist[r])

\* C8: after search_spatial_candidates every candidate list has at most k
\* entries and holds no comparison id twice
C8_AtMostKAndNoDuplicates ==
    Searched =>
        \A r \in Rows :
            /\ Len(cand_ids[r]) <= k
            /\ \A i, j \in DOMAIN cand_ids[r] : i # j => cand_ids[r][i] # cand_ids[r][j]

\* a row holds exactly k candidates although the comparison set is larger
C8_Witness ==
    Searched /\ Len(compared_gdf) > k /\ \E r \in Rows : Len(cand_ids[r]) = k

\* C9: the max_dist cutoff is inclusive: one of the k nearest at a distance
\* equal to max_dist is in the candidate list, one farther than max_dist is not
C9_CutoffInclusive ==
    Searched =>
        \A r \in Rows : \A i \in DOMAIN idx[r] :
            LET kept == \E p \in DOMAIN cand_ids[r] :
                            cand_ids[r][p] = compared_gdf[idx[r][i]].id
            IN /\ dist[r][i] = QInt(max_dist) => kept
               /\ QLt(QInt(max_dist), dist[r][i]) => ~kept

\* a neighbour exactly at max_dist was kept and a farther one was dropped
C9_Witness ==
    /\ Searched
    /\ \E r \in Rows : \E i \in DOMAIN cand_dist_m[r] : cand_dist_m[r][i] = QInt(max_dist)
    /\ \E r \in Rows : \E i \in DOMAIN dist[r] : QLt(QInt(max_dist), dist[r][i])

\* C10: with an empty comparison set search_spatial_candidates raises no error
\* and gives every reference row an empty id list and an empty distance list
C10_EmptyComparisonSetGivesEmptyLists ==
    (compared_gdf = <<>> /\ pc # "start") =>
        /\ pc # "raised"
        /\ \A r \in Rows : cand_ids[r] = <<>> /\ cand_dist_m[r] = <<>>

Json(type, text, items) == [type |-> type, text |-> text, items |-> items]

JsonScalars ==
    {Json("str", <<>>, <<>>), Json("str", <<"x">>, <<>>), Json("str", <<"a", "b">>, <<>>),
     Json("number", <<"7">>, <<>>), Json("number", <<"1", ".", "5">>, <<>>),
     Json("bool", <<"t", "r", "u", "e">>, <<>>), Json("null", <<>>, <<>>)}

MaxItems == 1

JsonLists == {Json("list", <<>>, items) : items \in SeqsUpTo(JsonScalars, MaxItems)}

JsonKeys == {"token", "key"}

\* objects over the keys of JsonKeys, the key "token" first when both are there
JsonDicts ==
    {Json("dict", <<>>, <<>>)}
        \cup {Json("dict", <<>>, <<<<key, v>>>>) : key \in JsonKeys, v \in JsonScalars}
        \cup {Json("dict", <<>>, <<<<"token", v>>, <<"key", w>>>>) :
                  v \in JsonScalars, w \in JsonScalars}

ValueError == <<"ValueError">>

\* "token" in data
has_token(data) == \E i \in DOMAIN data.items : data.items[i][1] = "token"

\* data["token"]
token_of(data) == data.items[CHOOSE i \in DOMAIN data.items : data.items[i][1] = "token"][2]

\* a read_token that returns None where the original raises
read_token_lenient(data) ==
    IF data.type = "dict" /\ has_token(data) THEN Return(token_of(data))
    ELSE IF data.type = "str" THEN Return(data)
    ELSE Return(Json("null", <<>>, <<>>))

\* read_token on the parsed content of the file
read_token(data) ==
    IF data.type = "dict" /\ has_token(data) THEN Return(token_of(data))
    ELSE IF data.type = "str" THEN Return(data)
    ELSE Raise(ValueError)

InitToken ==
    /\ NoPipeline
    /\ pc = "call"
    /\ call \in [fn : {"read_token"}, arg : JsonScalars \cup JsonLists \cup JsonDicts]
    /\ ret = <<>>

read_token_call ==
    /\ call.fn = "read_token"
    /\ pc = "call"
    /\ ret' = <<read_token(call.arg)>>
    /\ pc' = "done"
    /\ UNCHANGED <<tables, call>>

NextToken == read_token_call

SpecToken == InitToken /\ [][NextToken]_vars

(***************************************************************************)
(* circle_center of src/query_google_poi.py.  Lon/lat and projected metres *)
(* are the same whole-number plane, a circle is its centre and radius R,   *)
(* and a row of base is a point.                                           *)
(***************************************************************************)
TypeError == <<"TypeError">>

AttributeError == <<"AttributeError">>

\* what is passed as base: None, something that is no GeoDataFrame, or a
\* GeoDataFrame with a geometry column, with or without a CRS
Base(kind, crs, geometry) == [kind |-> kind, crs |-> crs, geometry |-> geometry]

NoBase == Base("None", FALSE, <<>>)

\* np.arange(lo + R, hi + 1e-9, 2 * R)
arange(lo, hi, R) ==
    LET n == IF lo + R > hi THEN 0 ELSE ((hi - lo - R) \div (2 * R)) + 1
    IN [i \in 1..n |-> lo + R + 2 * R * (i - 1)]

\* centers_xy: np.meshgrid(xs, ys) raveled row by row, empty when xs or ys is
centers_xy(a) ==
    LET xs == arange(a.min_lon, a.max_lon, a.R)
        ys == arange(a.min_lat, a.max_lat, a.R)
    IN [i \in 1..(Len(xs) * Len(ys)) |->
            <<xs[((i - 1) % Len(xs)) + 1], ys[((i - 1) \div Len(xs)) + 1]>>]

\* predicate="intersects" of a circle of radius R around c and a point p
intersects(c, R, p) ==
    (c[1] - p[1]) * (c[1] - p[1]) + (c[2] - p[2]) * (c[2] - p[2]) <= R * R

\* gpd.sjoin(circles, base_4326, how="inner", predicate="intersects"): one row
\* for every pair of a circle and a row of base that intersect
RECURSIVE sjoin(_, _, _)
sjoin(circles, R, geometry) ==
    IF circles = <<>> THEN <<>>
    ELSE Concat([j \in DOMAIN geometry |->
                    IF intersects(Head(circles), R, geometry[j])
                    THEN <<Head(circles)>> ELSE <<>>]) \o
         sjoin(Tail(circles), R, geometry)

\* the input validation, lines 81-95: the exception it raises, or None
validation(a) ==
    IF ~a.numeric THEN TypeError
    ELSE IF ~(a.max_lon > a.min_lon /\ a.max_lat > a.min_lat) THEN ValueError
    ELSE IF ~(a.R > 0) THEN ValueError
    ELSE IF a.base.kind # "None" /\ a.base.kind # "GeoDataFrame" THEN TypeError
    ELSE IF a.base.kind # "None" /\ ~a.base.crs THEN ValueError
    ELSE None

\* circle_center: base.to_crs (line 132) is reached whatever base is
circle_center(a) ==
    IF validation(a) # None THEN Raise(validation(a))
    ELSE IF a.base.kind = "None" THEN Raise(AttributeError)
    ELSE Return(sjoin(centers_xy(a), a.R, a.base.geometry))

MaxSpan == 4

MaxRadius == 2

MaxBase == 2

BasePoints == {<<0, 0>>, <<2, 2>>, <<4, 1>>}

Bases ==
    {NoBase, Base("DataFrame", FALSE, <<>>), Base("GeoDataFrame", FALSE, <<>>)}
        \cup {Base("GeoDataFrame", TRUE, g) : g \in SeqsUpTo(BasePoints, MaxBase)}

InitCircle ==
    /\ NoPipeline
    /\ pc = "call"
    /\ call \in [fn : {"circle_center"},
                 arg : [numeric : BOOLEAN, min_lon : {0}, max_lon : 0..MaxSpan,
                        min_lat : {0}, max_lat : 0..MaxSpan, R : 0..MaxRadius,
                        base : Bases]]
    /\ ret = <<>>

circle_center_call ==
    /\ call.fn = "circle_center"
    /\ pc = "call"
    /\ ret' = <<circle_center(call.arg)>>
    /\ pc' = "done"
    /\ UNCHANGED <<tables, call>>

NextCircle == circle_center_call

SpecCircle == InitCircle /\ [][NextCircle]_vars

\* the distance from reference row r to the comparison row numbered j
RowDistance(r, j) == Distance(reference_gdf[r].xy, compared_gdf[j].xy)

\* the comparison rows whose ids are in the candidate list of reference row r
Listed(r) == {j \in DOMAIN compared_gdf : compared_gdf[j].id \in Range(cand_ids[r])}

\* C21: after search_spatial_candidates the candidate list of each reference row
\* holds only records within max_dist, at most min(k, |comparison set|) of
\* them; no record left out is within max_dist and strictly nearer than one
\* on the list; and a list shorter than min(k, |comparison set|) holds every
\* record within max_dist.
C21_NearestWithinMaxDist ==
    Searched =>
        \A r \in Rows :
            /\ Len(cand_ids[r]) <= Min2(k, Len(compared_gdf))
            /\ Range(cand_ids[r]) \subseteq {compared_gdf[j].id : j \in DOMAIN compared_gdf}
            /\ \A j \in Listed(r) : QLe(RowDistance(r, j), QInt(max_dist))
            /\ \A j \in DOMAIN compared_gdf \ Listed(r) : \A i \in Listed(r) :
                  ~(/\ QLe(RowDistance(r, j), QInt(max_dist))
                    /\ QLt(RowDistance(r, j), RowDistance(r, i)))
            /\ Len(cand_ids[r]) < Min2(k, Len(compared_gdf)) =>
                  \A j \in DOMAIN compared_gdf :
                      QLe(RowDistance(r, j), QInt(max_dist)) => j \in Listed(r)

\* C21: a list is cut by k and leaves out a record that is within max_dist and
\* farther than the one it holds
C21_Witness ==
    /\ Searched
    /\ \E r \in Rows :
          /\ Len(cand_ids[r]) = k /\ k < Len(compared_gdf)
          /\ \E j \in DOMAIN compared_gdf \ Listed(r) : \A i \in Listed(r) :
                /\ QLe(RowDistance(r, j), QInt(max_dist))
                /\ QLt(RowDistance(r, i), RowDistance(r, j))

(***************************************************************************)
(* Properties of the whole pipeline                                        *)
(***************************************************************************)
\* the address scorer has run
Addressed == pc \in {"addressed", "scored"}

\* the category scorer has run and returned
Scored == pc = "scored"

\* a value that is null: NA, None or NaN
IsNull(v) == v \in {NA, None, NaN}

\* a value that is there
IsNumber(v) == ~IsNull(v)

\* C13: a row whose matched_id is null has a null address score, a null
\* matched address and a null category similarity.
C13_UnmatchedRowHasNoScores ==
    /\ Addressed =>
          \A r \in Rows :
              IsNull(matched_id[r]) => IsNull(address_score[r]) /\ IsNull(matched_address[r])
    /\ Scored => \A r \in Rows : IsNull(matched_id[r]) => IsNull(category_sim[r])

\* C13: the run is over, one row is unmatched and another has all three values
C13_Witness ==
    /\ Scored
    /\ \E r \in Rows : IsNull(matched_id[r])
    /\ \E r \in Rows : /\ IsNumber(address_score[r])
                        /\ IsNumber(matched_address[r])
                        /\ IsNumber(category_sim[r])

\* C14: a matched row whose reference category or matched category is the
\* empty string has a null category similarity.
C14_EmptyCategoryHasNoScore ==
    Scored =>
        \A r \in Rows :
            (IsNumber(matched_id[r])
                /\ (reference_gdf[r].primary_type = Empty \/ matched_cat_main[r] = Empty))
            => IsNull(category_sim[r])

\* C15: no component changes the collection it was given: the columns of its
\* input are afterwards what they were at the call, and its result is another
\* collection.
C15_InputsLeftAlone ==
    \A i \in DOMAIN given :
        /\ frames[given[i].frame] = given[i].columns
        /\ given[i].returned # given[i].frame

\* C16: the scorers return one row per input row in the input's order, and the
\* i-th row carries the result computed from the i-th row's own values, also
\* when only some rows are eligible for the category score.
C16_RowsAligned ==
    /\ pc \in {"searched", "matched", "addressed", "scored"} =>
          /\ DOMAIN cand_ids = Rows
          /\ DOMAIN cand_dist_m = Rows
          /\ \A r \in Rows : \A i \in DOMAIN cand_ids[r] :
                cand_dist_m[r][i] = Distance(reference_gdf[r].xy, ById(cand_ids[r][i]).xy)
    /\ pc \in {"matched", "addressed", "scored"} =>
          /\ DOMAIN matched_id = Rows
          /\ DOMAIN name_score = Rows
          /\ \A r \in Rows :
                IsNumber(matched_id[r]) =>
                    /\ matched_id[r] \in Range(cand_ids[r])
                    /\ matched_name[r] = id_to_name_raw(matched_id[r])
                    /\ name_score[r] = combined(query_of(r), id_to_name_clean(matched_id[r]))
    /\ Addressed =>
          /\ DOMAIN address_score = Rows
          /\ DOMAIN matched_address = Rows
          /\ \A r \in Rows : /\ address_score[r] = address_row(r).address_score
                              /\ matched_address[r] = address_row(r).matched_address
    /\ Scored =>
          /\ DOMAIN category_sim = Rows
          /\ \A r \in Rows :
                IF ~mask(r) \/ text_missing(r) THEN category_sim[r] = NaN
                ELSE /\ IsNumber(category_sim[r])
                     /\ (category_sim[r] = Q(1, 1))
                            <=> (reference_gdf[r].primary_type = matched_cat_main[r])

\* C16: two rows, the first not eligible and the second eligible with equal
\* categories, and a third case where two eligible rows score differently
C16_Witness ==
    /\ Scored
    /\ Len(reference_gdf) = 2
    /\ mask(1) /\ mask(2)
    /\ IsNumber(category_sim[1]) /\ IsNumber(category_sim[2])
    /\ category_sim[1] # category_sim[2]
    /\ IsNumber(address_score[1]) /\ IsNull(address_score[2])

\* the reference rows named "Macy's (Downtown)" with a candidate that cleans to "MACY"
MacyRows == {r \in Rows : /\ reference_gdf[r].name = MacysDowntown
                          /\ \E i \in DOMAIN cand_ids[r] :
                                id_to_name_clean(cand_ids[r][i]) = MACY}

\* the row scores at least 90 against "MACY" and is matched at threshold 80
MacyMatched(r) ==
    /\ threshold = 80
    /\ QLe(QInt(90), combined(query_of(r), MACY))
    /\ IsNumber(matched_id[r])
    /\ QLe(QInt(90), name_score[r])

\* C17 as stated: "Macy's (Downtown)" normalizes to "MACY DOWNTOWN", scores at
\* least 90 against a candidate that normalizes to "MACY" and is matched at
\* threshold 80.
C17_MacyDowntownAsStated ==
    pc \in {"matched", "addressed", "scored"} =>
        \A r \in MacyRows :
            clean_name(reference_gdf[r].name) = MACY_DOWNTOWN /\ MacyMatched(r)

\* C17: "Macy's (Downtown)" normalizes to "MACY", the parenthesised part being
\* removed with its parentheses; against a candidate that normalizes to "MACY"
\* the combined score is 100, at least 90, and the row is matched at threshold 80.
C17_MacyDowntownNormalizesToMacy ==
    pc \in {"matched", "addressed", "scored"} =>
        \A r \in MacyRows :
            /\ clean_name(reference_gdf[r].name) = MACY
            /\ query_of(r) = MACY
            /\ name_score[r] = QInt(100)
            /\ MacyMatched(r)

\* C17: the matcher has run on a "Macy's (Downtown)" row and given it the "Macy" record
C17_Witness ==
    /\ pc = "matched"
    /\ \E r \in MacyRows : /\ id_to_name_raw(matched_id[r]) = Macy
                            /\ matched_name[r] = Macy

\* a step taken by the address scorer or by the category scorer
ScorerStep == pc \in {"matched", "addressed"} /\ pc' \in {"addressed", "scored"}

\* C24: address_score_check and calculate_similarity_check leave matched_id,
\* name_score, location_distance, matched_name and matched_cat_main of every
\* row as they were, whatever score they compute.
C24_ScorersLeaveTheMatchAlone ==
    [][ScorerStep => UNCHANGED <<matched_id, name_score, location_distance,
                                 matched_name, matched_cat_main>>]_vars

\* C24: both scorers have run and a matched row has no address score and a
\* category similarity of 0, and is still matched
C24_Witness ==
    /\ pc = "scored"
    /\ \E r \in Rows : /\ IsNumber(matched_id[r])
                        /\ IsNull(address_score[r])
                        /\ category_sim[r] = Q(0, 1)
                        /\ IsNumber(name_score[r]) /\ IsNumber(matched_name[r])

(***************************************************************************)
(* Properties of address_score_check                                       *)
(***************************************************************************)
\* the cleaned reference address of row r
RefAddress(r) == address_clean_name(reference_gdf[r].addr_simple)

\* a comparison row carries the matched id of row r
Found(r) == \E j \in DOMAIN compared_gdf : compared_gdf[j].id = matched_id[r]

\* the cleaned address of the comparison row matched to row r
CmpAddress(r) == address_clean_name(ById(matched_id[r]).address)

\* C23: for a row with a matched id, address_score_check gives a null score when
\* the cleaned reference address or the cleaned matched address is empty or
\* the id is not in the comparison set; it surfaces the matched address
\* whenever that address is not empty, whatever the reference address is; so
\* a score is never there without a surfaced address.
C23_AddressScoreNullAndAddressSurfaced ==
    pc = "addressed" =>
        \A r \in Rows :
            IsNumber(matched_id[r]) =>
                /\ (RefAddress(r) = <<>> \/ ~Found(r)) => IsNull(address_score[r])
                /\ Found(r) =>
                      IF CmpAddress(r) = <<>>
                      THEN IsNull(address_score[r]) /\ IsNull(matched_address[r])
                      ELSE matched_address[r] = CmpAddress(r)
                /\ ~Found(r) => IsNull(matched_address[r])
                /\ IsNumber(address_score[r]) => IsNumber(matched_address[r])

\* C23: one row has an unusable reference address and still shows the matched
\* address without a score, another carries an id no comparison row has
C23_Witness ==
    /\ pc = "addressed"
    /\ \E r \in Rows : /\ IsNumber(matched_id[r]) /\ Found(r)
                        /\ RefAddress(r) = <<>>
                        /\ reference_gdf[r].addr_simple = Dot
                        /\ IsNumber(matched_address[r])
                        /\ IsNull(address_score[r])
    /\ \E r \in Rows : /\ matched_id[r] = MissingId
                        /\ IsNull(address_score[r]) /\ IsNull(matched_address[r])

(***************************************************************************)
(* Properties of the order of the scorers                                  *)
(***************************************************************************)
\* C26: run on the same matcher result, address_score_check followed by
\* calculate_similarity_check and calculate_similarity_check followed by
\* address_score_check give every row the same address_score,
\* matched_address and category_sim.
C26_ScorersCommute ==
    pc = "both" => Annotations = ret[1].value

\* C26: both orders have run, the second with the category scorer first, and a
\* matched row without an address score has a category similarity
C26_Witness ==
    /\ pc = "both"
    /\ given[Len(given) - 1].fn = "calculate_similarity_check"
    /\ given[Len(given)].fn = "address_score_check"
    /\ \E r \in Rows : IsNumber(address_score[r]) /\ IsNumber(category_sim[r])
    /\ \E r \in Rows : /\ IsNumber(matched_id[r]) /\ IsNull(address_score[r])
                        /\ IsNumber(category_sim[r])

(***************************************************************************)
(* Properties of the stored match                                          *)
(***************************************************************************)
\* C25: a row that match_by_name leaves with a matched_id has that id in its
\* candidate list, its location_distance is the distance stored at the same
\* position of its candidate distances and so at most max_dist, and its
\* matched_name and matched_cat_main are the raw name and the category of
\* the comparison record with that id.
C25_MatchComesFromCandidates ==
    Matched =>
        \A r \in Rows :
            IsNumber(matched_id[r]) =>
                /\ \E i \in DOMAIN cand_ids[r] :
                      /\ cand_ids[r][i] = matched_id[r]
                      /\ location_distance[r] = cand_dist_m[r][i]
                /\ QLe(location_distance[r], QInt(max_dist))
                /\ \E j \in DOMAIN compared_gdf :
                      /\ compared_gdf[j].id = matched_id[r]
                      /\ matched_name[r] = compared_gdf[j].name
                      /\ matched_cat_main[r] = compared_gdf[j].cat_main

\* C25: a row is matched to its second candidate, which is farther than the first
C25_Witness ==
    /\ Matched
    /\ \E r \in Rows : /\ Len(cand_ids[r]) = 2
                        /\ matched_id[r] = cand_ids[r][2]
                        /\ QLt(cand_dist_m[r][1], cand_dist_m[r][2])
                        /\ location_distance[r] = cand_dist_m[r][2]

(***************************************************************************)
(* Properties of extract_prinmary_str                                      *)
(***************************************************************************)
\* the tokens of the name under call that are not in the exclusion set
Remaining ==
    SelectSeq(split(call.arg.name), LAMBDA t : t \notin call.arg.NON_PRIMARY_TOKENS)

\* nothing remains, or one token of fewer than 3 characters
Untrusted == Remaining = <<>> \/ (Len(Remaining) = 1 /\ Len(Remaining[1]) < 3)

\* C22: extract_prinmary_str returns the tokens outside the exclusion set joined
\* by single spaces, except that it returns its input unchanged when nothing
\* remains or when exactly one token remains and it is shorter than 3 characters.
C22_ExtractPrimary ==
    (call.fn = "extract_prinmary_str" /\ pc \in {"once", "twice"}) =>
        /\ ret[1].kind = "return"
        /\ ret[1].value = IF Untrusted THEN call.arg.name ELSE join(Remaining)

\* C22: a call that dropped a token, and the name had one short token left over
C22_Witness ==
    /\ call.fn = "extract_prinmary_str" /\ pc = "once"
    /\ Len(Remaining) = 1 /\ Len(Remaining[1]) < 3
    /\ Len(split(call.arg.name)) > 1
    /\ ret[1].value = call.arg.name

\* s is t with some tokens left out
RECURSIVE IsSubsequence(_, _)
IsSubsequence(s, t) ==
    IF s = <<>> THEN TRUE
    ELSE IF t = <<>> THEN FALSE
    ELSE IF Head(s) = Head(t) THEN IsSubsequence(Tail(s), Tail(t))
    ELSE IsSubsequence(s, Tail(t))

\* C27: on a normalized name extract_prinmary_str gives the same text when run
\* on its own result, its result's tokens are a subsequence of the name's
\* tokens, and its result is not empty unless the name is.
C27_ExtractIdempotent ==
    (call.fn = "extract_prinmary_str" /\ call.arg.name \in NormalizedNames) =>
        /\ pc \in {"once", "twice"} =>
              /\ IsSubsequence(split(ret[1].value), split(call.arg.name))
              /\ call.arg.name # <<>> => ret[1].value # <<>>
        /\ pc = "twice" => ret[2] = ret[1]

\* C27: the second call came back on a name that lost a token in the first
C27_Witness ==
    /\ call.fn = "extract_prinmary_str" /\ pc = "twice"
    /\ call.arg.name \in NormalizedNames
    /\ ret[1].value # call.arg.name
    /\ ret[2] = ret[1]

(***************************************************************************)
(* Properties of the helper functions                                      *)
(***************************************************************************)
\* C11: both normalizers are idempotent: normalizing a normalized text gives it
\* back unchanged, for every text
C11_NormalizeIdempotent ==
    pc = "twice" => ret[2] = ret[1]

\* the address normalizer alone, called twice
AddressNormalizeIdempotent ==
    (pc = "twice" /\ call.fn = "address_clean_name") => ret[2] = ret[1]

\* C12: for an input that is not a text (None, NaN, a number) both normalizers
\* return the empty text and raise nothing
C12_NonStringGivesEmpty ==
    (call.arg \in NonStrings /\ pc \in {"once", "twice"}) => ret[1] = Return(<<>>)

\* the name normalizer was given NaN and the address normalizer a number
C12_Witness ==
    /\ pc = "once" /\ ret = <<Return(<<>>)>>
    /\ \/ call = [fn |-> "clean_name", arg |-> NaN]
       \/ call = [fn |-> "address_clean_name", arg |-> Number]

\* C19: read_token returns the token when the file holds an object with a
\* "token" key or a plain string, and raises ValueError for every other content
C19_ReadTokenReturnsOrRaises ==
    (pc = "done" /\ call.fn = "read_token") =>
        LET data == call.arg
        IN IF data.type = "dict" /\ \E i \in DOMAIN data.items : data.items[i][1] = "token"
           THEN ret[1].kind = "return" /\ \E i \in DOMAIN data.items :
                    data.items[i][1] = "token" /\ ret[1].value = data.items[i][2]
           ELSE IF data.type = "str"
           THEN ret[1].kind = "return" /\ ret[1].value = data
           ELSE ret[1].kind = "raise" /\ ret[1].value = ValueError

\* an object without the key "token" made read_token raise
C19_Witness ==
    /\ pc = "done" /\ call.fn = "read_token"
    /\ call.arg.type = "dict" /\ call.arg.items # <<>> /\ ~has_token(call.arg)
    /\ ret[1] = Raise(ValueError)

\* C20: circle_center given base = None and a valid box and radius raises
\* nothing and returns every circle of the grid, unfiltered
C20_BaseNoneReturnsAllCircles ==
    (/\ pc = "done" /\ call.fn = "circle_center"
     /\ call.arg.base = NoBase /\ call.arg.numeric
     /\ call.arg.max_lon > call.arg.min_lon /\ call.arg.max_lat > call.arg.min_lat
     /\ call.arg.R > 0) =>
        ret[1].kind = "return" /\ ret[1].value = centers_xy(call.arg)

====
